---- MODULE Spec2Model ----
(***************************************************************************)
(* Model of src/bot.py: a Telegram bot that turns an Instagram / YouTube   *)
(* link into a presentation message with download buttons (handle_links)   *)
(* and serves the button callbacks (cb_download).  The shared state is the *)
(* process-wide dict requests_store and the scratch directories of the     *)
(* filesystem; handlers run on the worker threads of the TeleBot           *)
(* dispatcher and interleave at the points where they block.               *)
(***************************************************************************)
EXTENDS Integers, Sequences, FiniteSets, TLC

(* ------------------------------ constants ------------------------------ *)

\* TeleBot(BOT_TOKEN) is built with the library defaults: threaded, 2 workers.
NumThreads == 2
\* default of the MAX_FILESIZE_MB environment setting
MAX_FILESIZE_MB == 1900
\* file_too_big divides st_size by 1024*1024
BytesPerMB == 1024 * 1024

\* size of the space uuid4()[:8] draws from, scaled down
NumIds == 2
\* number of names mkdtemp can pick from, scaled down
MaxDirs == 2

Workers == 1 .. NumThreads
Ids     == 1 .. NumIds
Dirs    == 1 .. MaxDirs

(* ------------------------------- inputs -------------------------------- *)

\* A URL is the list of the pieces of its text; a text is a list of
\* whitespace-separated tokens, each a plain word or a URL.
Word(s) == [kind |-> "word", s |-> s]
Link(u) == [kind |-> "url", u |-> u]

UrlInstagram == <<"https://", "www.", "instagram.com", "/reel/xyz987/">>
UrlYoutube   == <<"https://", "youtu.be", "/abc123">>
UrlOther     == <<"https://", "example.com", "/v/1">>

Texts ==
  { <<Link(UrlInstagram)>>,
    <<Word("check"), Word("this"), Link(UrlYoutube)>>,
    <<Word("see"), Link(UrlOther)>> }

\* call.data, as the list of its "|"-separated fields
CallData ==
  { <<"download", i, m>> : i \in Ids, m \in {"audio", "video"} }
    \cup { <<"download", i>> : i \in Ids }
    \cup { <<"download", 1, "video", "hd">> }

\* what the engine leaves in the scratch directory
Exts  == {".mp3", ".mp4", ".jpg"}
Sizes == {MAX_FILESIZE_MB * BytesPerMB, MAX_FILESIZE_MB * BytesPerMB + 1}

(* ---------------------------- pure functions ---------------------------- *)

\* URL_RE.search: the first token that is a URL, or "None"
RECURSIVE extract_url(_)
extract_url(text) ==
  IF text = <<>> THEN "None"
  ELSE IF Head(text).kind = "url" THEN Head(text).u
  ELSE extract_url(Tail(text))

\* Python's  frag in url
Contains(url, frag) == \E i \in 1 .. Len(url) : url[i] = frag

\* the two  if "..." in url  tests of handle_links, in their order
classify(url) ==
  IF Contains(url, "instagram.com") \/ Contains(url, "instagr.am") THEN "instagram"
  ELSE IF Contains(url, "youtube.com") \/ Contains(url, "youtu.be") THEN "youtube"
  ELSE "unsupported"

\* call.data.split("|", 2) unpacked into three names: the unpacking raises
\* unless the split yields three parts; the third part keeps further "|"
\* split_ok with the bound off by one
split_ok_two(data) == Len(data) >= 2
split_ok(data) == Len(data) >= 3
split_uid(data)  == data[2]
split_mode(data) == SubSeq(data, 3, Len(data))

\* file_too_big with >= for >
file_too_big_ge(file) ==
  IF file.exists THEN file.size >= MAX_FILESIZE_MB * BytesPerMB ELSE TRUE

\* file_too_big: st_size / (1024*1024) > MAX_FILESIZE_MB; a failing stat
\* counts as too big
file_too_big(file) ==
  IF file.exists THEN file.size > MAX_FILESIZE_MB * BytesPerMB ELSE TRUE

\* int(st_size / (1024*1024)) of the "File too large" text
shown_mb(size) == size \div BytesPerMB

AudioExts == {".mp3", ".m4a", ".opus", ".ogg"}

\* the delivery call chosen at lines 267-271
send_kind(audio_only, ext) ==
  IF audio_only \/ ext \in AudioExts THEN "send_audio" ELSE "send_video"

(* -------------------------------- state -------------------------------- *)

VARIABLES
  requests_store,   \* uid -> [url, type]
  scratch,          \* the scratch directories that exist
  pc,               \* per worker: where its handler stands
  loc,              \* per worker: the handler's local variables
  log,              \* per worker: the calls its handler has made so far
  issued            \* every uid handle_links has inserted so far (history)

vars == <<requests_store, scratch, pc, loc, log, issued>>

\* a call made by a handler: ok says whether it returned (TRUE) or raised, and
\* for file_too_big what it returned; mb is the number a "File too large"
\* text shows
EvMB(ev, ok, mb) == [ev |-> ev, ok |-> ok, mb |-> mb]
Ev(ev, ok) == EvMB(ev, ok, 0)

NoLocals == [h |-> "none"]

Init ==
  /\ requests_store = <<>>
  /\ scratch = {}
  /\ pc = [w \in Workers |-> "idle"]
  /\ loc = [w \in Workers |-> NoLocals]
  /\ log = [w \in Workers |-> <<>>]
  /\ issued = {}

\* the handler of worker w moves to p with locals l, having made calls evs
Step(w, p, l, evs) ==
  /\ pc' = [pc EXCEPT ![w] = p]
  /\ loc' = [loc EXCEPT ![w] = l]
  /\ log' = [log EXCEPT ![w] = @ \o evs]

\* the handler ends: returned normally, or an exception left it
Finish(w, l, evs, raised) ==
  Step(w, "done", l @@ ("raised" :> raised), evs)

(* ----------------------------- handle_links ----------------------------- *)
\* A handler is cut into actions at the points where it reads or writes
\* requests_store or creates its scratch directory; the calls between two
\* such points touch nothing another handler sees and are part of one
\* action.  A handler's locals are kept in loc only up to their last use,
\* the calls it made are kept in log until its worker is free again.

\* lines 154-163, 209-210, 235: routing, classification, "Fetching" notice
handle_links_begin(w, text) ==
  /\ pc[w] = "idle"
  /\ extract_url(text) # "None"
  /\ LET url == extract_url(text)
         platform == classify(url)
     IN \E ok \in BOOLEAN :
          IF platform = "unsupported"
          THEN Finish(w, [h |-> "handle_links", text |-> text, url |-> url],
                      <<Ev("msg_unsupported", ok)>>, ~ok)
          ELSE IF ok
          THEN Step(w, "links_probe",
                    [h |-> "handle_links", text |-> text, url |-> url,
                     platform |-> platform],
                    <<Ev("msg_fetching", TRUE)>>)
          ELSE Finish(w, [h |-> "handle_links"], <<Ev("msg_fetching", FALSE)>>, TRUE)
  /\ UNCHANGED <<requests_store, scratch, issued>>

\* str(uuid.uuid4())[:8]: any value of the id space
new_uid(store) == Ids

\* store_put that loses the insertion
store_put_lost(store, uid, url, platform) == store

\* requests_store[uid] = {"url": url, "type": platform}
store_put(store, uid, url, platform) ==
  [k \in DOMAIN store \cup {uid} |->
     IF k = uid THEN [url |-> url, type |-> platform] ELSE store[k]]

\* what probe_info returns: None, or metadata with or without a thumbnail
Infos == {"None", "meta", "meta_thumb"}

\* out_text that reads the metadata whether or not there is any
out_text_meta(info) == "meta"

\* lines 166-186, 212-216: the text built from the metadata, or the
\* placeholder text ("Instagram post found.", "YouTube Video") without it
out_text(info) == IF info = "None" THEN "placeholder" ELSE "meta"

\* lines 170-172, 215: thumb is set only from metadata
thumb_of(info) == info = "meta_thumb"

\* lines 193-194, 219-221: the callback_data of the buttons
buttons(platform, uid) ==
  IF platform = "instagram" THEN { <<"download", uid, "video">> }
  ELSE { <<"download", uid, "video">>, <<"download", uid, "audio">> }

\* lines 164-194, 211-221: probe_info (None on any failure), the text, the
\* uid, the insertion, the buttons
handle_links_store(w) ==
  /\ pc[w] = "links_probe"
  /\ \E info \in Infos, uid \in new_uid(requests_store) :
       /\ requests_store' = store_put(requests_store, uid, loc[w].url, loc[w].platform)
       /\ issued' = issued \cup {uid}
       /\ Step(w, "links_present",
               [h |-> "handle_links", uid |-> uid, thumb |-> thumb_of(info),
                out_text |-> out_text(info), kb |-> buttons(loc[w].platform, uid)],
               <<Ev("probe_info", info # "None"), Ev("store", TRUE)>>)
  /\ UNCHANGED scratch

\* present_calls without the except clause
present_calls_once(thumb, ok1, ok2, okd) ==
  LET first == IF thumb THEN "send_photo" ELSE "send_message"
  IN IF ok1 THEN <<Ev(first, TRUE), Ev("delete_fetching", okd)>>
     ELSE <<Ev(first, FALSE)>>

\* lines 196-205, 223-231: the first send, the text-only send of the except
\* clause, the removal of the "Fetching" notice (skipped when the except
\* clause raises)
present_calls(thumb, ok1, ok2, okd) ==
  LET first == IF thumb THEN "send_photo" ELSE "send_message"
  IN IF ok1 THEN <<Ev(first, TRUE), Ev("delete_fetching", okd)>>
     ELSE IF ok2
     THEN <<Ev(first, FALSE), Ev("fallback_send", TRUE), Ev("delete_fetching", okd)>>
     ELSE <<Ev(first, FALSE), Ev("fallback_send", FALSE)>>

\* lines 195-206, 222-232: the presentation with its buttons
handle_links_present(w) ==
  /\ pc[w] = "links_present"
  /\ \E calls \in { present_calls(loc[w].thumb, ok1, ok2, okd) :
                     ok1 \in BOOLEAN, ok2 \in BOOLEAN, okd \in BOOLEAN } :
       Finish(w, [h |-> "handle_links"], calls, ~calls[Len(calls)].ok
                                                   /\ calls[Len(calls)].ev = "fallback_send")
  /\ UNCHANGED <<requests_store, scratch, issued>>

(* ----------------------------- cb_download ------------------------------ *)

\* the None of requests_store.get, in the shape of an entry
NoRequest == [url |-> <<>>, type |-> "None"]

\* store_get with a default entry for a missing key
store_get_default(store, uid) ==
  IF uid \in DOMAIN store THEN store[uid] ELSE [url |-> UrlYoutube, type |-> "youtube"]

\* requests_store.get(uid)
store_get(store, uid) == IF uid \in DOMAIN store THEN store[uid] ELSE NoRequest

\* lines 237-253: routing, the split, the lookup, the acknowledgement
cb_download_begin(w, data) ==
  /\ pc[w] = "idle"
  /\ data[1] = "download"
  /\ \E ok \in BOOLEAN :
       IF ~split_ok(data)
       THEN Finish(w, [h |-> "cb_download", data |-> data],
                   <<Ev("answer_invalid", ok)>>, ~ok)
       ELSE LET uid == split_uid(data)
                mode == split_mode(data)
                req == store_get(requests_store, uid)
                l == [h |-> "cb_download", data |-> data, uid |-> uid]
            IN IF req = NoRequest
               THEN Finish(w, l, <<Ev("answer_expired", ok)>>, ~ok)
               ELSE IF ok
               THEN Step(w, "cb_notify", l @@ [mode |-> mode, url |-> req.url],
                         <<Ev("answer_starting", TRUE)>>)
               ELSE Finish(w, l, <<Ev("answer_starting", FALSE)>>, TRUE)
  /\ UNCHANGED <<requests_store, scratch, issued>>

\* mkdtemp that takes a fixed name whether or not it exists
mkdtemp_fixed(existing) == {CHOOSE d \in Dirs : \A e \in Dirs : d <= e}

\* tempfile.mkdtemp creates a directory under a name that does not exist yet
\* (it raises when it finds none).  Names are interchangeable, so the first
\* free one stands for whichever name it draws.
mkdtemp(existing) ==
  IF Dirs \ existing = {} THEN {}
  ELSE {CHOOSE d \in Dirs \ existing : \A e \in Dirs \ existing : d <= e}

\* lines 255-256: the "Downloading" notice, then tempfile.mkdtemp
cb_download_notify(w) ==
  /\ pc[w] = "cb_notify"
  /\ LET l == [h |-> "cb_download"]
     IN \/ /\ Finish(w, l, <<Ev("notify", FALSE)>>, TRUE)
           /\ UNCHANGED scratch
        \/ /\ Finish(w, l, <<Ev("notify", TRUE), Ev("mkdtemp", FALSE)>>, TRUE)
           /\ UNCHANGED scratch
        \/ \E d \in mkdtemp(scratch) :
             /\ scratch' = scratch \cup {d}
             /\ Step(w, "cb_fetch",
                     [h |-> "cb_download", uid |-> loc[w].uid, mode |-> loc[w].mode,
                      url |-> loc[w].url, tmpdir |-> d],
                     <<Ev("notify", TRUE), Ev("mkdtemp", TRUE)>>)
  /\ UNCHANGED <<requests_store, issued>>

\* line 258
is_audio_only(mode) == mode = <<"audio">>

\* lines 258-259: download_with_yt(url, tmpdir, audio_only) raises, or returns
\* a path that may not exist
cb_download_fetch(w) ==
  /\ pc[w] = "cb_fetch"
  /\ LET l == [h |-> "cb_download", uid |-> loc[w].uid, tmpdir |-> loc[w].tmpdir,
               audio_only |-> is_audio_only(loc[w].mode)]
     IN \/ Step(w, "cb_deliver", l @@ [dl |-> "raised"], <<Ev("download", FALSE)>>)
        \/ Step(w, "cb_deliver",
                l @@ [dl |-> "ok", file |-> [exists |-> FALSE]],
                <<Ev("download", TRUE)>>)
        \/ \E e \in Exts, s \in Sizes :
             Step(w, "cb_deliver",
                  l @@ [dl |-> "ok", file |-> [exists |-> TRUE, ext |-> e, size |-> s]],
                  <<Ev("download", TRUE)>>)
  /\ UNCHANGED <<requests_store, scratch, issued>>

\* deliver_calls with the delivery made before the size gate
deliver_calls_send_first(dl, file, audio_only, ok, okf) ==
  IF dl = "raised" THEN <<Ev("msg_failed", okf)>>
  ELSE IF ~file.exists THEN <<Ev("file_too_big", TRUE), Ev("msg_failed", okf)>>
  ELSE <<Ev(send_kind(audio_only, file.ext), TRUE), Ev("file_too_big", FALSE)>>

\* lines 260-273 as the calls they make: after a download that raised, the
\* except clause alone; else the size gate, then the "File too large" text
\* (whose stat raises for a missing file) or the delivery; whatever raises
\* inside the try is answered by the "Download failed" text
deliver_calls(dl, file, audio_only, ok, okf) ==
  IF dl = "raised" THEN <<Ev("msg_failed", okf)>>
  ELSE IF file_too_big(file)
  THEN IF ~file.exists
       THEN <<Ev("file_too_big", TRUE), Ev("msg_failed", okf)>>
       ELSE IF ok
       THEN <<Ev("file_too_big", TRUE),
              EvMB("msg_too_large", TRUE, shown_mb(file.size))>>
       ELSE <<Ev("file_too_big", TRUE),
              EvMB("msg_too_large", FALSE, shown_mb(file.size)),
              Ev("msg_failed", okf)>>
  ELSE IF ok
  THEN <<Ev("file_too_big", FALSE), Ev(send_kind(audio_only, file.ext), TRUE)>>
  ELSE <<Ev("file_too_big", FALSE), Ev(send_kind(audio_only, file.ext), FALSE),
         Ev("msg_failed", okf)>>

\* lines 275-287 as the calls they make: every one of them is attempted;
\* shutil.rmtree is taken to succeed
cleanup_calls(okd) ==
  <<Ev("delete_notify", okd), Ev("rmtree", TRUE), Ev("del_request", TRUE)>>

\* store_del that forgets the deletion
store_del_skipped(store, uid) == store

\* del requests_store[uid], KeyError swallowed
store_del(store, uid) == [k \in DOMAIN store \ {uid} |-> store[k]]

\* lines 260-287: the size gate, the delivery, the except clause, then the
\* finally clause; an exception of the except clause goes on to the
\* dispatcher after the finally clause
cb_download_deliver(w) ==
  /\ pc[w] = "cb_deliver"
  /\ \E calls \in { deliver_calls(loc[w].dl,
                                   IF loc[w].dl = "ok" THEN loc[w].file
                                   ELSE [exists |-> FALSE],
                                   loc[w].audio_only, ok, okf) :
                     ok \in BOOLEAN, okf \in BOOLEAN },
        okd \in BOOLEAN :
       Finish(w, [h |-> "cb_download"], calls \o cleanup_calls(okd),
              ~calls[Len(calls)].ok)
  /\ scratch' = scratch \ {loc[w].tmpdir}
  /\ requests_store' = store_del(requests_store, loc[w].uid)
  /\ UNCHANGED issued

(* --------------------------- the other handlers ------------------------- *)

\* lines 136-142: /start is answered with the welcome text
cmd_start(w) ==
  /\ pc[w] = "idle"
  /\ \E ok \in BOOLEAN :
       Finish(w, [h |-> "cmd_start"], <<Ev("msg_welcome", ok)>>, ~ok)
  /\ UNCHANGED <<requests_store, scratch, issued>>

\* callback data of the language buttons
LangData == {"lang_en", "lang_hi"}

\* lines 144-152: the callback is answered, then the language text is sent
cb_lang(w, data) ==
  /\ pc[w] = "idle"
  /\ data \in LangData
  /\ \E ok1 \in BOOLEAN, ok2 \in BOOLEAN :
       Finish(w, [h |-> "cb_lang"],
              IF ok1 THEN <<Ev("answer_lang", TRUE), Ev("msg_lang", ok2)>>
              ELSE <<Ev("answer_lang", FALSE)>>,
              ~(ok1 /\ ok2))
  /\ UNCHANGED <<requests_store, scratch, issued>>

\* content types routed to handle_media_forward
MediaKinds == {"video", "photo", "document"}

\* the send call of lines 292-297 for a message of the given kind
forward_call(kind) ==
  IF kind = "video" THEN "forward_video"
  ELSE IF kind = "photo" THEN "forward_photo"
  ELSE "forward_document"

\* lines 289-297: the media is sent back
handle_media_forward(w, kind) ==
  /\ pc[w] = "idle"
  /\ \E ok \in BOOLEAN :
       Finish(w, [h |-> "handle_media_forward"], <<Ev(forward_call(kind), ok)>>, ~ok)
  /\ UNCHANGED <<requests_store, scratch, issued>>

\* texts without a URL
PlainTexts == { <<Word("hello")>> }

\* lines 299-321: a text that no other handler takes gets the help text
fallback_text(w, text) ==
  /\ pc[w] = "idle"
  /\ extract_url(text) = "None"
  /\ \E ok \in BOOLEAN :
       Finish(w, [h |-> "fallback_text"], <<Ev("msg_help", ok)>>, ~ok)
  /\ UNCHANGED <<requests_store, scratch, issued>>

(* ------------------------------ dispatcher ------------------------------ *)

\* the worker thread is free again
handler_return(w) ==
  /\ pc[w] = "done"
  /\ pc' = [pc EXCEPT ![w] = "idle"]
  /\ loc' = [loc EXCEPT ![w] = NoLocals]
  /\ log' = [log EXCEPT ![w] = <<>>]
  /\ UNCHANGED <<requests_store, scratch, issued>>

Next ==
  \E w \in Workers :
    \/ \E text \in Texts : handle_links_begin(w, text)
    \/ handle_links_store(w)
    \/ handle_links_present(w)
    \/ \E data \in CallData : cb_download_begin(w, data)
    \/ cb_download_notify(w)
    \/ cb_download_fetch(w)
    \/ cb_download_deliver(w)
    \/ cmd_start(w)
    \/ \E data \in LangData : cb_lang(w, data)
    \/ \E kind \in MediaKinds : handle_media_forward(w, kind)
    \/ \E text \in PlainTexts : fallback_text(w, text)
    \/ handler_return(w)

Spec == Init /\ [][Next]_vars

\* link messages alone, over a wider set of texts
UrlNested == <<"https://", "example.com", "/?u=", "instagram.com">>
UrlYoutubeLong == <<"https://", "www.", "youtube.com", "/watch?v=abcd1234">>

TextsWide ==
  Texts \cup { <<Word("look"), Link(UrlNested)>>,
               <<Link(UrlOther), Word("and"), Link(UrlYoutubeLong)>>,
               <<Link(UrlYoutubeLong), Link(UrlInstagram)>> }

NextLinks ==
  \E w \in Workers :
    \/ \E text \in TextsWide : handle_links_begin(w, text)
    \/ handle_links_store(w)
    \/ handle_links_present(w)
    \/ handler_return(w)

SpecLinks == Init /\ [][NextLinks]_vars

(* ------------------------------- claims -------------------------------- *)

Has(L, ev) == \E i \in 1 .. Len(L) : L[i].ev = ev
Count(L, ev) == Cardinality({i \in 1 .. Len(L) : L[i].ev = ev})
Made(L, e) == \E i \in 1 .. Len(L) : L[i] = e

MediaSends == {"send_audio", "send_video", "send_document"}
NoMediaSend(L) == \A i \in 1 .. Len(L) : L[i].ev \notin MediaSends

\* worker w runs a cb_download that found its entry and has not finished
InProgress(w) == pc[w] \in {"cb_notify", "cb_fetch", "cb_deliver"}

\* the cb_download of worker w found its entry and acknowledged the callback
Resolved(L) == Made(L, Ev("answer_starting", TRUE))

\* C1: no two cb_download invocations for the same request id are in
\* progress at the same time (of N concurrent callbacks with one id, one
\* resolves the entry and the others are answered 'Request expired').
C1_AtMostOnce ==
  \A w1 \in Workers, w2 \in Workers :
    (w1 # w2 /\ InProgress(w1) /\ InProgress(w2)) => loc[w1].uid # loc[w2].uid

\* C2: when a cb_download invocation that resolved an entry finishes, by any
\* path, its scratch directory does not exist and its request id is not a key
\* of requests_store.
C2_CleanupOnFinish ==
  [][\A w \in Workers :
       (pc[w] \in {"cb_notify", "cb_fetch", "cb_deliver"} /\ pc'[w] = "done")
         => /\ loc[w].uid \notin DOMAIN requests_store'
            /\ ("tmpdir" \in DOMAIN loc[w] => loc[w].tmpdir \notin scratch')]_vars

\* C3: an artifact larger than MAX_FILESIZE_MB MB (of 1024*1024 bytes) gets
\* the 'File too large' text with its measured size in whole MB and no media
\* send; an artifact that is not larger is passed by the gate and handed to a
\* media send.
C3_SizeGate ==
  [][\A w \in Workers :
       (pc[w] = "cb_deliver" /\ pc'[w] = "done" /\ loc[w].dl = "ok"
          /\ loc[w].file.exists)
         => LET size == loc[w].file.size
                L == log'[w]
            IN IF size > MAX_FILESIZE_MB * 1024 * 1024
               THEN /\ \E i \in 1 .. Len(L) :
                         /\ L[i].ev = "msg_too_large"
                         /\ L[i].mb * 1024 * 1024 <= size
                         /\ size < (L[i].mb + 1) * 1024 * 1024
                    /\ NoMediaSend(L)
               ELSE /\ ~Has(L, "msg_too_large")
                    /\ Made(L, Ev("file_too_big", FALSE))
                    /\ ~NoMediaSend(L)]_vars

C3_Witness ==
  \E w \in Workers :
    /\ pc[w] = "done"
    /\ Has(log[w], "msg_too_large")
    /\ NoMediaSend(log[w])

\* C4: the url cb_download reads for a request id is the one its entry was
\* created with and an entry's url never changes while the entry lives;
\* audio-only is requested exactly when the mode field is 'audio'.
C4_Correlation ==
  [][/\ \A x \in DOMAIN requests_store \cap DOMAIN requests_store' :
          requests_store'[x].url = requests_store[x].url
     /\ \A w \in Workers :
          /\ (pc[w] = "idle" /\ pc'[w] = "cb_notify")
               => loc'[w].url = requests_store[loc'[w].uid].url
          /\ (pc[w] = "cb_fetch" /\ pc'[w] = "cb_deliver")
               => (loc'[w].audio_only <=> loc[w].mode = <<"audio">>)]_vars

\* C5: every id handle_links inserts differs from every id inserted before,
\* live or deleted, so an insertion never overwrites a live entry.
C5_FreshId ==
  [][\A w \in Workers :
       (pc[w] = "links_probe" /\ pc'[w] = "links_present")
         => /\ loc'[w].uid \notin issued
            /\ loc'[w].uid \notin DOMAIN requests_store]_vars

\* the parts of C6 that do not depend on the outcome of the send_audio call:
\* one send_audio call and no other media send after a download within the
\* ceiling, one 'Download failed' text and no media send after a failed
\* download, and an empty requests_store when the entry was the only one
C6_Common(w) ==
  LET L == log'[w]
      within == /\ loc[w].dl = "ok"
                /\ loc[w].file.exists
                /\ loc[w].file.size <= MAX_FILESIZE_MB * 1024 * 1024
  IN /\ within => (Count(L, "send_audio") = 1 /\ Count(L, "send_video") = 0)
     /\ loc[w].dl = "raised" => (Count(L, "msg_failed") = 1 /\ NoMediaSend(L))
     /\ (within \/ loc[w].dl = "raised")
          => (DOMAIN requests_store \subseteq {loc[w].uid}
                => DOMAIN requests_store' = {})

C6_AudioStep(w) ==
  pc[w] = "cb_deliver" /\ pc'[w] = "done" /\ loc[w].audio_only

\* C6: one link message, then one 'download|<id>|audio' callback: a download
\* within the ceiling yields exactly one send_audio call, and no failure text
\* when that call succeeds (exactly one 'Download failed' text when it
\* raises); a failed download yields exactly one 'Download failed' text and
\* no media send; requests_store is empty afterwards.
C6_EndToEnd ==
  [][\A w \in Workers :
       C6_AudioStep(w)
         => /\ C6_Common(w)
            /\ (loc[w].dl = "ok" /\ loc[w].file.exists
                  /\ loc[w].file.size <= MAX_FILESIZE_MB * 1024 * 1024)
                 => IF Made(log'[w], Ev("send_audio", TRUE))
                    THEN ~Has(log'[w], "msg_failed")
                    ELSE Count(log'[w], "msg_failed") = 1]_vars

\* C6 as claimed, for a callback handled while no other handler runs: no
\* failure text at all after a download within the ceiling
C6_EndToEndAsClaimed ==
  [][\A w \in Workers :
       (C6_AudioStep(w) /\ \A v \in Workers \ {w} : pc[v] = "idle")
         => /\ C6_Common(w)
            /\ (loc[w].dl = "ok" /\ loc[w].file.exists
                  /\ loc[w].file.size <= MAX_FILESIZE_MB * 1024 * 1024)
                 => ~Has(log'[w], "msg_failed")]_vars

C6_Witness ==
  \E w \in Workers :
    /\ pc[w] = "done"
    /\ Count(log[w], "send_audio") = 1
    /\ Made(log[w], Ev("send_audio", TRUE))
    /\ Made(log[w], Ev("del_request", TRUE))
    /\ DOMAIN requests_store = {}
    /\ \A v \in Workers \ {w} : pc[v] = "idle"

\* the steps of a resolved cb_download whose failure C7 speaks of
C7_Steps ==
  {"notify", "mkdtemp", "download", "msg_too_large", "send_audio", "send_video",
   "msg_failed"}

\* C7: a failure at any step of a cb_download that resolved an entry yields a
\* 'Download failed' text and leaves no exception to the dispatcher.
C7_FailureContained ==
  \A w \in Workers :
    (pc[w] = "done" /\ loc[w].h = "cb_download" /\ Resolved(log[w]))
      => /\ ~loc[w].raised
         /\ (\E i \in 1 .. Len(log[w]) : log[w][i].ev \in C7_Steps /\ ~log[w][i].ok)
              => Has(log[w], "msg_failed")

\* C8: a well-formed payload whose id is not a key of requests_store is
\* answered 'Request expired' and nothing else happens.
C8_LedgerMiss ==
  [][\A w \in Workers :
       (pc[w] = "idle" /\ pc'[w] # "idle" /\ loc'[w].h = "cb_download"
          /\ Len(loc'[w].data) >= 3
          /\ loc'[w].data[2] \notin DOMAIN requests_store)
         => /\ pc'[w] = "done"
            /\ Len(log'[w]) = 1
            /\ log'[w][1].ev = "answer_expired"
            /\ UNCHANGED <<requests_store, scratch>>]_vars

C8_Witness ==
  \E w \in Workers :
    /\ pc[w] = "done"
    /\ loc[w].h = "cb_download"
    /\ Has(log[w], "answer_expired")
    /\ loc[w].uid \in issued

\* C9: a payload with fewer than three "|"-separated parts is answered
\* 'Invalid request.' and nothing else happens.
C9_Malformed ==
  [][\A w \in Workers :
       (pc[w] = "idle" /\ pc'[w] # "idle" /\ loc'[w].h = "cb_download"
          /\ Len(loc'[w].data) < 3)
         => /\ pc'[w] = "done"
            /\ Len(log'[w]) = 1
            /\ log'[w][1].ev = "answer_invalid"
            /\ UNCHANGED <<requests_store, scratch>>]_vars

C9_Witness ==
  \E w \in Workers :
    /\ pc[w] = "done"
    /\ loc[w].h = "cb_download"
    /\ Has(log[w], "answer_invalid")
    /\ DOMAIN requests_store # {}

Before(L, i, S) == \E j \in 1 .. i - 1 : L[j] \in S

\* C10: in one cb_download the scratch directory is created before the
\* download, the download returns before the size check, the size check
\* precedes any media send, and the scratch directory is there until the
\* media send, the 'File too large' text or the 'Download failed' text has
\* been issued.
C10_StepOrder ==
  \A w \in Workers :
    LET L == log[w]
    IN /\ \A i \in 1 .. Len(L) :
            /\ L[i].ev = "download" => Before(L, i, {Ev("mkdtemp", TRUE)})
            /\ L[i].ev = "file_too_big" => Before(L, i, {Ev("download", TRUE)})
            /\ L[i].ev \in MediaSends => Before(L, i, {Ev("file_too_big", FALSE)})
            /\ L[i].ev = "rmtree"
                 => \E j \in 1 .. i - 1 :
                      L[j].ev \in MediaSends \cup {"msg_too_large", "msg_failed"}
       /\ pc[w] \in {"cb_fetch", "cb_deliver"} => loc[w].tmpdir \in scratch

C10_Witness ==
  \E w \in Workers :
    /\ pc[w] = "done"
    /\ Has(log[w], "rmtree")
    /\ Made(log[w], Ev("send_video", TRUE))

\* a cb_download between its mkdtemp and the end of its finally clause
HasDir(w) == pc[w] \in {"cb_fetch", "cb_deliver"}

\* C11: two cb_download invocations in progress at the same time hold
\* different scratch directories, and the directory of an invocation that has
\* not reached its own cleanup is never removed by the cleanup of another.
C11_ScratchIsolation ==
  /\ [](\A w \in Workers, v \in Workers :
         (w # v /\ HasDir(w) /\ HasDir(v)) => loc[w].tmpdir # loc[v].tmpdir)
  /\ [][\A w \in Workers, v \in Workers :
          (w # v /\ pc[w] = "cb_deliver" /\ pc'[w] = "done" /\ HasDir(v))
            => /\ loc[v].tmpdir \in scratch'
               /\ scratch' = scratch \ {loc[w].tmpdir}]_vars

\* one invocation cleans up while another still holds its directory
C11_Witness ==
  \E w \in Workers, v \in Workers :
    /\ pc[w] = "done"
    /\ Has(log[w], "rmtree")
    /\ HasDir(v)
    /\ loc[v].tmpdir \in scratch

\* the first URL token of a text
FirstUrl(text) ==
  LET i == CHOOSE k \in 1 .. Len(text) :
             /\ text[k].kind = "url"
             /\ \A j \in 1 .. k - 1 : text[j].kind # "url"
  IN text[i].u

\* the pieces that begin the path of a URL: the host is what stands between
\* the scheme and the first of them
PathStarts == {"/reel/xyz987/", "/abc123", "/v/1", "/?u=", "/watch?v=abcd1234"}

HostOf(url) ==
  LET k == CHOOSE n \in 2 .. Len(url) :
             /\ url[n] \in PathStarts
             /\ \A j \in 2 .. n - 1 : url[j] \notin PathStarts
  IN SubSeq(url, 2, k - 1)

\* the platform a URL's domain belongs to
DomainPlatform(url) ==
  LET host == HostOf(url)
      last == host[Len(host)]
  IN IF last \in {"instagram.com", "instagr.am"} THEN "instagram"
     ELSE IF last \in {"youtube.com", "youtu.be"} THEN "youtube"
     ELSE "unsupported"

\* C12: handle_links acts on the first URL of the text; a URL of an Instagram
\* domain gets exactly one entry tagged 'instagram', a URL of a YouTube domain
\* exactly one entry tagged 'youtube', and a URL of any other domain gets the
\* 'Unsupported link' text, no probe and an unchanged requests_store.
C12_Classification ==
  [][\A w \in Workers :
       /\ (pc[w] = "idle" /\ pc'[w] = "links_probe")
            => /\ loc'[w].url = FirstUrl(loc'[w].text)
               /\ DomainPlatform(loc'[w].url) # "unsupported"
               /\ UNCHANGED requests_store
       /\ (pc[w] = "idle" /\ pc'[w] = "done" /\ loc'[w].h = "handle_links"
             /\ "url" \in DOMAIN loc'[w])
            => /\ loc'[w].url = FirstUrl(loc'[w].text)
               /\ DomainPlatform(loc'[w].url) = "unsupported"
               /\ Len(log'[w]) = 1
               /\ log'[w][1].ev = "msg_unsupported"
               /\ UNCHANGED requests_store
       /\ (pc[w] = "links_probe" /\ pc'[w] = "links_present")
            => LET uid == loc'[w].uid
               IN /\ DOMAIN requests_store' = DOMAIN requests_store \cup {uid}
                  /\ requests_store'[uid] =
                       [url |-> loc[w].url, type |-> DomainPlatform(loc[w].url)]
                  /\ \A x \in DOMAIN requests_store \ {uid} :
                       requests_store'[x] = requests_store[x]]_vars

\* the calls a step adds to the log of worker w
NewCalls(w) == SubSeq(log'[w], Len(log[w]) + 1, Len(log'[w]))

\* the probe of this handle_links returned None
ProbeFailed(L) == Made(L, Ev("probe_info", FALSE))

\* C13: when probe_info returns None for a supported link, handle_links goes
\* on: it inserts exactly one entry for the URL, builds the placeholder text
\* and the button(s) of that entry, and sends the presentation as a text
\* message; no error text is sent.
C13_ProbeDegradation ==
  [][\A w \in Workers :
       /\ (pc[w] = "links_probe" /\ ProbeFailed(log'[w]))
            => LET uid == loc'[w].uid
               IN /\ pc'[w] = "links_present"
                  /\ DOMAIN requests_store' = DOMAIN requests_store \cup {uid}
                  /\ requests_store'[uid] =
                       [url |-> loc[w].url, type |-> loc[w].platform]
                  /\ \A x \in DOMAIN requests_store \ {uid} :
                       requests_store'[x] = requests_store[x]
                  /\ loc'[w].out_text = "placeholder"
                  /\ ~loc'[w].thumb
                  /\ loc'[w].kb # {}
                  /\ \A b \in loc'[w].kb :
                       split_ok(b) /\ b[1] = "download" /\ split_uid(b) = uid
       /\ (pc[w] = "links_present" /\ ProbeFailed(log[w]) /\ pc'[w] # pc[w])
            => /\ NewCalls(w)[1].ev = "send_message"
               /\ \A i \in 1 .. Len(log'[w]) :
                    log'[w][i].ev \in {"msg_fetching", "probe_info", "store",
                                        "send_message", "fallback_send",
                                        "delete_fetching"}
               /\ UNCHANGED requests_store]_vars

\* a presentation sent as text after a probe that returned None
C13_Witness ==
  \E w \in Workers :
    /\ pc[w] = "done"
    /\ loc[w].h = "handle_links"
    /\ ProbeFailed(log[w])
    /\ Made(log[w], Ev("send_message", TRUE))
    /\ ~loc[w].raised

\* C14: when the first send of the presentation (photo with caption, or
\* text) raises, handle_links makes a text-only send next; when that one
\* succeeds the handler ends normally, and when the first send succeeds no
\* second send is made.
C14_PresentFallback ==
  [][\A w \in Workers :
       (pc[w] = "links_present" /\ pc'[w] = "done")
         => LET calls == NewCalls(w)
                first == IF loc[w].thumb THEN "send_photo" ELSE "send_message"
            IN /\ calls[1].ev = first
               /\ ~calls[1].ok
                    => /\ Len(calls) >= 2
                       /\ calls[2].ev = "fallback_send"
                       /\ calls[2].ok => ~loc'[w].raised
               /\ calls[1].ok
                    => (~Has(calls, "fallback_send") /\ ~loc'[w].raised)]_vars

\* a photo send that raised, followed by a text-only send that went through
C14_Witness ==
  \E w \in Workers :
    /\ pc[w] = "done"
    /\ Made(log[w], Ev("send_photo", FALSE))
    /\ Made(log[w], Ev("fallback_send", TRUE))
    /\ ~loc[w].raised

\* C15: a cb_download that sent its 'Downloading' notice has attempted to
\* delete it by the time it finishes, whatever path it took, and the attempt,
\* failed or not, is followed by the removal of the scratch directory and of
\* the entry.
C15_NoticeRemoved ==
  \A w \in Workers :
    (pc[w] = "done" /\ loc[w].h = "cb_download" /\ Made(log[w], Ev("notify", TRUE)))
      => \E i \in 1 .. Len(log[w]) - 2 :
           /\ log[w][i].ev = "delete_notify"
           /\ log[w][i + 1].ev = "rmtree"
           /\ log[w][i + 2].ev = "del_request"

\* extensions of video containers
VideoExts == {".mp4", ".mkv", ".webm", ".mov"}

\* the send operation the extension of an artifact calls for
KindByExt(ext) ==
  IF ext \in AudioExts THEN "send_audio"
  ELSE IF ext \in VideoExts THEN "send_video"
  ELSE "send_document"

\* C16: an artifact that passed the size gate is delivered by exactly one
\* send call, send_audio for an audio extension, send_video for a video
\* extension and send_document for any other extension.
C16_DeliveryKind ==
  [][\A w \in Workers :
       (pc[w] = "cb_deliver" /\ pc'[w] = "done" /\ loc[w].dl = "ok"
          /\ loc[w].file.exists /\ ~file_too_big(loc[w].file))
         => LET calls == NewCalls(w)
                sends == {i \in 1 .. Len(calls) : calls[i].ev \in MediaSends}
            IN /\ Cardinality(sends) = 1
               /\ \A i \in sends : calls[i].ev = KindByExt(loc[w].file.ext)]_vars

\* C17: when both the first send and the text-only send of the presentation
\* raise, the entry handle_links inserted is no longer in requests_store when
\* the handler ends.
C17_DiscardOnAbort ==
  [][\A w \in Workers :
       (pc[w] = "links_present" /\ pc'[w] = "done"
          /\ Made(log'[w], Ev("fallback_send", FALSE)))
         => loc[w].uid \notin DOMAIN requests_store']_vars

\* a cb_download that was answered 'Starting download...' finishes in this step
CbFinishes(w) == pc[w] \in {"cb_notify", "cb_deliver"} /\ pc'[w] = "done"

\* C18: the two buttons of a YouTube presentation carry the same id, and once
\* a cb_download for that id has finished, with whatever outcome, a callback
\* of either button finds no entry, that is, is answered 'Request expired'
\* (stated for an invocation that finishes while no other handler runs).
C18_SharedId ==
  [][\A w \in Workers :
       /\ (pc[w] = "links_probe" /\ pc'[w] = "links_present"
             /\ loc[w].platform = "youtube")
            => /\ Cardinality(loc'[w].kb) = 2
               /\ \A b \in loc'[w].kb : split_uid(b) = loc'[w].uid
       /\ (CbFinishes(w) /\ \A v \in Workers \ {w} : pc[v] = "idle")
            => \A b \in buttons("youtube", loc[w].uid) :
                 store_get(requests_store', split_uid(b)) = NoRequest]_vars

\* the sends that carry the buttons
ButtonSends == {"send_photo", "send_message", "fallback_send"}

\* C19: handle_links has inserted the entry when it sends the buttons: the id
\* of every button it built is a key of requests_store from the insertion
\* on, every send of the buttons comes after the insertion, and a key leaves
\* requests_store only in the finishing step of a cb_download for that id;
\* so a callback of a presented button finds its entry unless such a
\* cb_download has finished, and no button carries an id never inserted.
C19_InsertBeforePresent ==
  /\ [](\A w \in Workers :
          /\ pc[w] = "links_present"
               => \A b \in loc[w].kb : split_uid(b) = loc[w].uid /\ loc[w].uid \in issued
          /\ loc[w].h = "handle_links"
               => \A i \in 1 .. Len(log[w]) :
                    log[w][i].ev \in ButtonSends
                      => Before(log[w], i, {Ev("store", TRUE)}))
  /\ [][/\ \A w \in Workers :
            (pc[w] = "links_probe" /\ pc'[w] = "links_present")
              => \A b \in loc'[w].kb : split_uid(b) \in DOMAIN requests_store'
        /\ \A x \in DOMAIN requests_store \ DOMAIN requests_store' :
             \E w \in Workers :
               /\ pc[w] = "cb_deliver" /\ pc'[w] = "done"
               /\ loc[w].uid = x]_vars

\* the buttons were sent, and a callback of theirs found the entry
C19_Witness ==
  \E w \in Workers, v \in Workers :
    /\ pc[w] = "done"
    /\ loc[w].h = "handle_links"
    /\ ~loc[w].raised
    /\ Has(log[w], "store")
    /\ pc[v] = "cb_notify"
    /\ issued = {loc[v].uid}

\* the handlers that have nothing to do with requests_store
OtherHandlers == {"cmd_start", "cb_lang", "handle_media_forward", "fallback_text"}

\* every entry but the one keyed x is still there, unchanged
OthersKept(x) ==
  \A y \in DOMAIN requests_store \ {x} :
    y \in DOMAIN requests_store' /\ requests_store'[y] = requests_store[y]

\* C20: the finishing step of a cb_download for id X removes at most the
\* entry keyed X and leaves every other entry as it is; the insertion of
\* handle_links adds exactly one entry and removes or changes none; every
\* other step of every handler (cmd_start, cb_lang, handle_media_forward and
\* fallback_text among them) leaves requests_store unchanged; nothing else,
\* no timer, removes an entry.
C20_LedgerFrame ==
  [][/\ \A w \in Workers :
          /\ (pc[w] = "cb_deliver" /\ pc'[w] = "done")
               => /\ OthersKept(loc[w].uid)
                  /\ DOMAIN requests_store' \subseteq DOMAIN requests_store
          /\ (pc[w] = "links_probe" /\ pc'[w] = "links_present")
               => /\ DOMAIN requests_store' = DOMAIN requests_store \cup {loc'[w].uid}
                  /\ Cardinality(DOMAIN requests_store')
                       = Cardinality(DOMAIN requests_store) + 1
                  /\ \A y \in DOMAIN requests_store :
                       requests_store'[y] = requests_store[y]
          /\ (pc[w] = "idle" /\ pc'[w] = "done" /\ loc'[w].h \in OtherHandlers)
               => UNCHANGED requests_store
     /\ (\A w \in Workers :
           ~(pc[w] = "cb_deliver" /\ pc'[w] = "done")
             /\ ~(pc[w] = "links_probe" /\ pc'[w] = "links_present"))
          => UNCHANGED requests_store]_vars

====
